---- MODULE Spec2Model ----
(***************************************************************************)
(* usb-boot-hut: the secure wipe engine (src/disk/wipe.rs) and its CLI     *)
(* caller handle_nuke (src/cli/commands.rs), as a state machine.           *)
(*                                                                         *)
(* A device is the sequence of its bytes (values 0..255).  One call of     *)
(* SecureWipe::nuke_drive runs the passes of the chosen pattern; a pass is *)
(* one call of wipe_with_pattern, wipe_with_repeating_pattern or           *)
(* wipe_with_progress (random), and is modelled step by step: open and     *)
(* seek, then per chunk (read /dev/urandom for a random pass), write_all,  *)
(* progress callback, and at the end sync_all.  Every I/O step may fail.   *)
(*                                                                         *)
(* Sizes are scaled: the 4 MiB chunk is CHUNK_SIZE bytes, the 1 MiB prefix *)
(* read by verify_wiped is SCAN_LEN bytes.                                 *)
(***************************************************************************)
EXTENDS Integers, Sequences, FiniteSets, TLC

(* ------------------------------ bounds -------------------------------- *)

\* wipe.rs:62/255/293  const CHUNK_SIZE: usize = 4 * 1024 * 1024, scaled to bytes
CHUNK_SIZE == 4
\* wipe.rs:102  vec![0u8; 1024 * 1024], the prefix verify_wiped reads, scaled
SCAN_LEN == 8
\* the largest device, in bytes: two full chunks and a partial one
MaxSize == 9
\* the largest pass count a caller supplies (u8 in the source)
MaxPasses == 3
\* how many distinct buffers /dev/urandom can deliver
NumRandom == 2

\* wipe.rs:109  "MBR boot signature at offset 510", scaled into the prefix
MBR_OFFSET == 2
\* wipe.rs:112  "ext2/3/4 at offset 0x438", scaled into the prefix
EXT_OFFSET == 5

(* ------------------------------ helpers ------------------------------- *)

Min(a, b) == IF a < b THEN a ELSE b

Max(a, b) == IF a > b THEN a ELSE b

\* the file after write_all(bytes) at cursor position off (0-based); a write
\* past the end lengthens the sequence, so that an overrun is visible
WriteAt(dev, off, bytes) ==
    [i \in 1..Max(Len(dev), off + Len(bytes)) |->
        IF i > off /\ i <= off + Len(bytes) THEN bytes[i - off] ELSE dev[i]]

\* what the device holds before the first wipe: 0x55 0xAA repeated
OldData(n) == [i \in 1..n |-> IF i % 2 = 1 THEN 85 ELSE 170]

\* the OS errors an I/O call can fail with
OsErrors == {"EIO"}

\* UsbBootHutError::Device(format!("<what>: {}", e)): the variant, the fixed
\* text of the message and the OS error formatted into it
DeviceError(what, e) == [variant |-> "Device", what |-> what, cause |-> e]

\* Ok(()), and the result of a call that has not returned
OkResult == [variant |-> "Ok", what |-> "", cause |-> ""]

NoResult == [variant |-> "none", what |-> "", cause |-> ""]

(* ------------------------- pass descriptions -------------------------- *)

WipePatterns == {"Random", "Zeros", "Dod", "Gutmann"}

\* a pass is a call of one of the three pass functions
RandomPass == [fn |-> "wipe_with_random", bytes |-> << >>]

BytePass(b) == [fn |-> "wipe_with_pattern", bytes |-> <<b>>]

RepeatingPass(p) == [fn |-> "wipe_with_repeating_pattern", bytes |-> p]

\* nuke_random: for pass in 1..=passes { wipe_with_random }
nuke_random(n) == [p \in 1..n |-> RandomPass]

\* the loop of nuke_zeros over 1..passes, the last pass left out
nuke_zeros_exclusive(n) == [p \in 1..(n - 1) |-> BytePass(0)]

\* nuke_zeros: for pass in 1..=passes { wipe_with_zeros }, wipe_with_pattern(0x00)
nuke_zeros(n) == [p \in 1..n |-> BytePass(0)]

\* nuke_dod: zeros, 0xFF, random
nuke_dod == << BytePass(0), BytePass(255), RandomPass >>

\* the patterns table of nuke_gutmann; an empty pattern stands for a random pass
GutmannPatterns ==
    << << >>, << >>, << >>, << >>,
       <<85, 85, 85>>, <<170, 170, 170>>, <<146, 73, 36>>, <<73, 36, 146>>,
       <<36, 146, 73>>, <<0, 0, 0>>, <<17, 17, 17>>, <<34, 34, 34>>,
       <<51, 51, 51>>, <<68, 68, 68>>, <<85, 85, 85>>, <<102, 102, 102>>,
       <<119, 119, 119>>, <<136, 136, 136>>, <<153, 153, 153>>,
       <<170, 170, 170>>, <<187, 187, 187>>, <<204, 204, 204>>,
       <<221, 221, 221>>, <<238, 238, 238>>, <<255, 255, 255>>,
       <<146, 73, 36>>, <<73, 36, 146>>, <<36, 146, 73>>,
       <<109, 182, 219>>, <<182, 219, 109>>, <<219, 109, 182>>,
       << >>, << >>, << >>, << >> >>

\* the table read one entry late: pass 5 random, pass 32 a pattern
nuke_gutmann_shifted ==
    [i \in 1..Len(GutmannPatterns) |->
        IF GutmannPatterns[Max(i - 1, 1)] = << >> THEN RandomPass
        ELSE RepeatingPass(GutmannPatterns[Max(i - 1, 1)])]

\* nuke_gutmann: for each pattern, random when it is empty, else repeating
nuke_gutmann ==
    [i \in 1..Len(GutmannPatterns) |->
        IF GutmannPatterns[i] = << >> THEN RandomPass
        ELSE RepeatingPass(GutmannPatterns[i])]

\* nuke_drive handing the pass count on to the DoD wipe as well
nuke_drive_counted(pat, n) ==
    CASE pat = "Random" -> nuke_random(n)
      [] pat = "Zeros" -> nuke_zeros(n)
      [] pat = "Dod" -> [p \in 1..n |-> nuke_dod[((p - 1) % 3) + 1]]
      [] pat = "Gutmann" -> nuke_gutmann

\* nuke_drive: the passes the call runs, in order
nuke_drive(pat, n) ==
    CASE pat = "Random" -> nuke_random(n)
      [] pat = "Zeros" -> nuke_zeros(n)
      [] pat = "Dod" -> nuke_dod
      [] pat = "Gutmann" -> nuke_gutmann

\* the total the progress callback is given: passes, 3 or 35
TotalPasses(pat, n) ==
    CASE pat = "Random" -> n
      [] pat = "Zeros" -> n
      [] pat = "Dod" -> 3
      [] pat = "Gutmann" -> 35

(* ------------------------------ buffers ------------------------------- *)

\* a buffer that holds the pattern once, the rest left zero
InitialBufferUntiled(kind) ==
    IF kind.fn = "wipe_with_random" THEN [i \in 1..CHUNK_SIZE |-> 0]
    ELSE [i \in 1..CHUNK_SIZE |->
             IF i <= Len(kind.bytes) THEN kind.bytes[i] ELSE 0]

\* the buffer a pass starts with: vec![byte; CHUNK_SIZE], the pattern tiled from
\* index 0, or vec![0u8; CHUNK_SIZE] before the first read of /dev/urandom
InitialBuffer(kind) ==
    IF kind.fn = "wipe_with_random" THEN [i \in 1..CHUNK_SIZE |-> 0]
    ELSE [i \in 1..CHUNK_SIZE |-> kind.bytes[((i - 1) % Len(kind.bytes)) + 1]]

\* the buffers urandom.read_exact can deliver
RandomBuffers ==
    { [i \in 1..CHUNK_SIZE |-> (85 * (k + i - 1)) % 256] : k \in 1..NumRandom }

\* a chunk length taken of what is written, not of what remains: 0 at first
ToWriteNothing(sz, wr) == Min(CHUNK_SIZE, wr)

\* the last chunk not cut to what remains
ToWriteWholeChunk(sz, wr) == CHUNK_SIZE

\* std::cmp::min(CHUNK_SIZE, (size - written) as usize), usize of 64 bits
ToWrite(sz, wr) == Min(CHUNK_SIZE, sz - wr)

\* a percentage taken of the chunk size, not of the device size
PercentOfChunk(wr, sz) == (wr * 100) \div CHUNK_SIZE

\* ((written as f64 / size as f64) * 100.0) as u8: the truncated product. For
\* every written <= size <= 11 the f64 product truncates to the exact integer
\* quotient used here; for larger operands f64 rounding can give one less
\* (29 of 100 gives 28), and only 0 and 100 are exact for every size
Percent(wr, sz) == (wr * 100) \div sz

(* ------------------------------- state -------------------------------- *)

VARIABLES
    device,      \* the bytes of the block device
    pc,          \* where the process stands
    removable,   \* UsbDevice::removable of the device found
    force,       \* handle_nuke's force argument (--force)
    verify,      \* handle_nuke's verify argument (--verify)
    confirmed,   \* confirmations the operator has accepted in this invocation
    verified,    \* "none", or "true" / "false": the boolean verify_wiped returned
    message,     \* the last line handle_nuke printed about the outcome
    hresult,     \* what handle_nuke returned: NoResult, OkResult or the error
    pattern,     \* the pattern argument (--pattern)
    passes,      \* the passes argument (--passes)
    pass,        \* index of the pass started last (0: none yet)
    kind,        \* the pass function running and its pattern bytes
    size,        \* the size the running pass got from seek(End(0))
    pos,         \* the cursor of the open file
    written,     \* the local of the pass loop
    buffer,      \* the chunk buffer
    result,      \* what nuke_drive returned: NoResult, OkResult or the error
    passLog,     \* (index, total, kind) of every pass started in this call
    chunkLog,    \* (offset, length) of every write_all that succeeded in this pass
    reports,     \* (written, percent) of every per-chunk progress callback of this pass
    synced,      \* passes of this call whose sync_all has completed
    writeCalls,  \* write_all calls of this call, failed ones included
    writeFailures, \* write_all calls of this call that returned an error
    opens,       \* handles this call has opened on the device
    sizings,     \* times this call has asked the device for its size
    sinkCalls,   \* calls this call has made of the caller's progress_callback
    earlierCall, \* the call of nuke_drive before this one: its pattern and pass
                 \* count, the passes it announced and the variant of its
                 \* result; NoCall when there was none
    grub,        \* GrubInstaller::install: where it is, what is mounted, what it
                 \* mounted, what it tried to unmount, and its results
    fmt          \* DriveManager::secure_format: where it is, the checks and
                 \* steps of format_and_setup it has run, and its result

wipeVars == << pattern, passes, pass, kind, size, pos, written, buffer, result >>

logVars == << passLog, chunkLog, reports, synced, writeCalls, writeFailures,
             opens, sizings, sinkCalls >>

cliVars == << removable, force, verify, confirmed, verified, message, hresult >>

\* what the steps of handle_nuke and of one call of nuke_drive leave alone
sideVars == << earlierCall, grub, fmt >>

vars == << device, pc, cliVars, wipeVars, logVars, sideVars >>

NoKind == [fn |-> "none", bytes |-> << >>]

NoCall == [variant |-> "none", pattern |-> "none", passes |-> 0, log |-> << >>]

\* no GrubInstaller::install is running
GrubIdle ==
    [pc |-> "idle", step |-> 0, mounted |-> {}, byInstall |-> {}, tried |-> {},
     result |-> NoResult, ret |-> NoResult]

\* no DriveManager::secure_format is running
FormatIdle ==
    [pc |-> "idle", system |-> FALSE, encrypt |-> FALSE, passphrase |-> FALSE,
     checks |-> << >>, steps |-> << >>, ret |-> NoResult]

Init ==
    /\ device \in { OldData(n) : n \in 0..MaxSize }
    /\ pc = "start"
    /\ removable = TRUE
    /\ force = FALSE
    /\ verify = FALSE
    /\ confirmed = 0
    /\ verified = "none"
    /\ message = "none"
    /\ hresult = NoResult
    /\ pattern = "Random"
    /\ passes = 1
    /\ pass = 0
    /\ kind = NoKind
    /\ size = 0
    /\ pos = 0
    /\ written = 0
    /\ buffer = << >>
    /\ result = NoResult
    /\ passLog = << >>
    /\ chunkLog = << >>
    /\ reports = << >>
    /\ synced = 0
    /\ writeCalls = 0
    /\ writeFailures = 0
    /\ opens = 0
    /\ sizings = 0
    /\ sinkCalls = 0
    /\ earlierCall = NoCall
    /\ grub = GrubIdle
    /\ fmt = FormatIdle

(* ------------------------------ actions ------------------------------- *)

\* a nuke_drive that takes up a failed call at the pass that failed
NukeDriveResume ==
    /\ pc = "nuke"
    /\ pass' = IF result.variant = "Device" THEN pass - 1 ELSE 0
    /\ kind' = NoKind
    /\ size' = 0
    /\ pos' = 0
    /\ written' = 0
    /\ buffer' = << >>
    /\ result' = NoResult
    /\ passLog' = << >>
    /\ chunkLog' = << >>
    /\ reports' = << >>
    /\ synced' = 0
    /\ writeCalls' = 0
    /\ writeFailures' = 0
    /\ opens' = 0
    /\ sizings' = 0
    /\ sinkCalls' = 0
    /\ pc' = "sched"
    /\ UNCHANGED << device, cliVars, pattern, passes >>
    /\ UNCHANGED sideVars

\* wiper.nuke_drive(pattern, passes, |current_pass, total_passes, message| ..):
\* the callee's frame at entry
NukeDrive ==
    /\ pc = "nuke"
    /\ pass' = 0
    /\ kind' = NoKind
    /\ size' = 0
    /\ pos' = 0
    /\ written' = 0
    /\ buffer' = << >>
    /\ result' = NoResult
    /\ passLog' = << >>
    /\ chunkLog' = << >>
    /\ reports' = << >>
    /\ synced' = 0
    /\ writeCalls' = 0
    /\ writeFailures' = 0
    /\ opens' = 0
    /\ sizings' = 0
    /\ sinkCalls' = 0
    /\ pc' = "sched"
    /\ UNCHANGED << device, cliVars, pattern, passes >>
    /\ UNCHANGED sideVars

\* a scheduler that runs no further pass once the device reads all 0x00
NextPassSkipClean ==
    /\ pc = "sched"
    /\ LET plan == nuke_drive(pattern, passes) IN
       IF pass < Len(plan) /\ \E i \in 1..Len(device) : device[i] # 0
       THEN /\ pass' = pass + 1
            /\ kind' = plan[pass + 1]
            /\ passLog' = Append(passLog,
                   [index |-> pass + 1,
                    total |-> TotalPasses(pattern, passes),
                    kind |-> plan[pass + 1]])
            /\ sinkCalls' = sinkCalls + 1
            /\ pc' = "open"
            /\ UNCHANGED result
       ELSE /\ result' = OkResult
            /\ pc' = "done"
            /\ UNCHANGED << pass, kind, passLog, sinkCalls >>
    /\ UNCHANGED << device, cliVars, pattern, passes, size, pos, written, buffer,
                    chunkLog, reports, synced, writeCalls, writeFailures, opens,
                    sizings >>
    /\ UNCHANGED sideVars

\* the pass loop of nuke_random, nuke_zeros, nuke_gutmann and the straight line
\* of nuke_dod: announce the next pass and call its pass function, or return Ok
NextPass ==
    /\ pc = "sched"
    /\ LET plan == nuke_drive(pattern, passes) IN
       IF pass < Len(plan)
       THEN /\ pass' = pass + 1
            /\ kind' = plan[pass + 1]
            /\ passLog' = Append(passLog,
                   [index |-> pass + 1,
                    total |-> TotalPasses(pattern, passes),
                    kind |-> plan[pass + 1]])
            /\ sinkCalls' = sinkCalls + 1
            /\ pc' = "open"
            /\ UNCHANGED result
       ELSE /\ result' = OkResult
            /\ pc' = "done"
            /\ UNCHANGED << pass, kind, passLog, sinkCalls >>
    /\ UNCHANGED << device, cliVars, pattern, passes, size, pos, written, buffer,
                    chunkLog, reports, synced, writeCalls, writeFailures, opens,
                    sizings >>
    /\ UNCHANGED sideVars

\* a random pass that does not read /dev/urandom again before each write
LoopHeadReadOnce(k, sz, wr) ==
    IF wr < sz THEN "write" ELSE "sync"

\* a loop whose body runs once before the test
LoopHeadDoWhile(k, sz, wr) ==
    IF wr < sz \/ wr = 0
    THEN (IF k.fn = "wipe_with_random" THEN "read" ELSE "write")
    ELSE "sync"

\* a pass function that opens the device again for every chunk
LoopHeadReopen(k, sz, wr) ==
    IF wr < sz THEN "open" ELSE "sync"

\* a pass function that returns after its last chunk without sync_all
LoopHeadNoSync(k, sz, wr) ==
    IF wr < sz
    THEN (IF k.fn = "wipe_with_random" THEN "read" ELSE "write")
    ELSE "sched"

\* where the loop `while written < size` goes next
LoopHead(k, sz, wr) ==
    IF wr < sz
    THEN (IF k.fn = "wipe_with_random" THEN "read" ELSE "write")
    ELSE "sync"

\* a pass function fails: the error goes up through `?` and nuke_drive returns it
Fail(err) ==
    /\ result' = err
    /\ pc' = "failed"

\* a pass that leaves the cursor where seek(SeekFrom::End(0)) put it
SeekStartMissing(sz) == sz

\* file.seek(SeekFrom::Start(0)) after the seek to the end at sz: the cursor
\* the first write_all starts from
SeekStart(sz) == 0

\* the head of a pass function: open the device for writing, seek(End(0)) for
\* the size, seek(Start(0)), make the buffer (and open /dev/urandom)
OpenDevice ==
    /\ pc = "open"
    /\ \/ /\ size' = Len(device)
          /\ pos' = SeekStart(Len(device))
          /\ written' = 0
          /\ buffer' = InitialBuffer(kind)
          /\ chunkLog' = << >>
          /\ reports' = << >>
          /\ pc' = LoopHead(kind, Len(device), 0)
          /\ opens' = opens + 1
          /\ sizings' = sizings + 1
          /\ UNCHANGED result
       \/ /\ \E e \in OsErrors : Fail(DeviceError("Failed to open device", e))
          /\ UNCHANGED << size, pos, written, buffer, chunkLog, reports, opens,
                          sizings >>
       \/ /\ \E e \in OsErrors : Fail(DeviceError("Failed to get size", e))
          /\ opens' = opens + 1
          /\ UNCHANGED << size, pos, written, buffer, chunkLog, reports, sizings >>
       \/ /\ \E e \in OsErrors : Fail(DeviceError("Failed to seek", e))
          /\ opens' = opens + 1
          /\ sizings' = sizings + 1
          /\ UNCHANGED << size, pos, written, buffer, chunkLog, reports >>
       \/ /\ kind.fn = "wipe_with_random"
          /\ \E e \in OsErrors : Fail(DeviceError("Failed to open /dev/urandom", e))
          /\ size' = Len(device)
          /\ pos' = SeekStart(Len(device))
          /\ buffer' = InitialBuffer(kind)
          /\ opens' = opens + 1
          /\ sizings' = sizings + 1
          /\ UNCHANGED << written, chunkLog, reports >>
    /\ UNCHANGED << device, cliVars, pattern, passes, pass, kind, passLog, synced,
                    writeCalls, writeFailures, sinkCalls >>
    /\ UNCHANGED sideVars

\* wipe_with_progress: urandom.read_exact(&mut buffer)
ReadRandom ==
    /\ pc = "read"
    /\ \/ /\ buffer' \in RandomBuffers
          /\ pc' = "write"
          /\ UNCHANGED result
       \/ /\ \E e \in OsErrors : Fail(DeviceError("Failed to read random", e))
          /\ UNCHANGED buffer
    /\ UNCHANGED << device, cliVars, pattern, passes, pass, kind, size, pos, written,
                    logVars >>
    /\ UNCHANGED sideVars

\* write_all(..)? with no map_err: the io::Error converted by #[from]
WriteErrorIo(e) == [variant |-> "Io", what |-> "", cause |-> e]

\* .map_err(|e| UsbBootHutError::Device(format!("Failed to write: {}", e)))
WriteError(e) == DeviceError("Failed to write", e)

\* the error of write_all dropped and the chunk written again
WriteRetried(err) == pc' = "write" /\ UNCHANGED result

\* the `?` after write_all: the pass function returns the error at once
WriteFailed(err) == Fail(err)

\* a loop that goes back to its test after a write, reporting no progress
AfterWriteNoReport(k, sz, wr) == LoopHead(k, sz, wr)

\* where the loop body goes after write_all and `written += to_write`: to the
\* progress callback
AfterWrite(k, sz, wr) == "progress"

\* file.write_all(&buffer[..to_write]) and written += to_write; a failing
\* write_all may have written any shorter part of the chunk
WriteChunk ==
    /\ pc = "write"
    /\ LET to_write == ToWrite(size, written) IN
       \/ /\ device' = WriteAt(device, pos, SubSeq(buffer, 1, to_write))
          /\ pos' = pos + to_write
          /\ written' = written + to_write
          /\ chunkLog' = Append(chunkLog, [offset |-> pos, length |-> to_write])
          /\ pc' = AfterWrite(kind, size, written + to_write)
          /\ UNCHANGED << result, writeFailures >>
       \/ /\ \E k \in 0..(to_write - 1) :
                /\ device' = WriteAt(device, pos, SubSeq(buffer, 1, k))
                /\ pos' = pos + k
          /\ \E e \in OsErrors : WriteFailed(WriteError(e))
          /\ writeFailures' = writeFailures + 1
          /\ UNCHANGED << written, chunkLog >>
    /\ writeCalls' = writeCalls + 1
    /\ UNCHANGED << cliVars, pattern, passes, pass, kind, size, buffer, passLog,
                    reports, synced, opens, sizings, sinkCalls >>
    /\ UNCHANGED sideVars

\* progress_callback(progress) after the chunk, then the loop test
Progress ==
    /\ pc = "progress"
    /\ reports' = Append(reports,
           [written |-> written, percent |-> Percent(written, size)])
    /\ sinkCalls' = sinkCalls + 1
    /\ pc' = LoopHead(kind, size, written)
    /\ UNCHANGED << device, cliVars, wipeVars, passLog, chunkLog, synced, writeCalls,
                    writeFailures, opens, sizings >>
    /\ UNCHANGED sideVars

\* a pass function that drops the result of sync_all and returns Ok
SyncIgnored(err) ==
    /\ pc' = "sched"
    /\ UNCHANGED result

\* sync_all().map_err(..)?: no flush, the pass function returns the error
SyncFailed(err) == Fail(err)

\* file.sync_all(), after which the pass function returns Ok
SyncAll ==
    /\ pc = "sync"
    /\ \/ /\ synced' = synced + 1
          /\ pc' = "sched"
          /\ UNCHANGED result
       \/ /\ \E e \in OsErrors : SyncFailed(DeviceError("Failed to sync", e))
          /\ UNCHANGED synced
    /\ UNCHANGED << device, cliVars, pattern, passes, pass, kind, size, pos, written,
                    buffer, passLog, chunkLog, reports, writeCalls, writeFailures,
                    opens, sizings, sinkCalls >>
    /\ UNCHANGED sideVars

\* nuke_drive has returned to handle_nuke: an error goes up through `?`; after
\* Ok the wipe is verified when --verify was given, else handle_nuke ends
Return ==
    /\ pc \in {"done", "failed"}
    /\ IF pc = "failed"
       THEN /\ hresult' = result
            /\ pc' = "exit"
            /\ UNCHANGED message
       ELSE IF verify
       THEN /\ pc' = "verify"
            /\ UNCHANGED << hresult, message >>
       ELSE /\ hresult' = OkResult
            /\ message' = "DEVICE NUKED"
            /\ pc' = "exit"
    /\ UNCHANGED << device, removable, force, verify, confirmed, verified,
                    wipeVars, logVars >>
    /\ UNCHANGED sideVars

(* ---------------------------- verify_wiped ---------------------------- *)

\* the signatures array of verify_wiped: "EFI PART", 55 AA, "NTFS", "FAT32", 53 EF
Signatures ==
    << <<69, 70, 73, 32, 80, 65, 82, 84>>,
       <<85, 170>>,
       <<78, 84, 70, 83>>,
       <<70, 65, 84, 51, 50>>,
       <<83, 239>> >>

\* a scan that takes the first byte of a signature for the signature
AnyWindowFirstByte(buf, sig) ==
    \E i \in 1..Len(buf) : buf[i] = sig[1]

\* buffer.windows(sig.len()).any(|w| w == *sig)
AnyWindow(buf, sig) ==
    \E i \in 1..(Len(buf) - Len(sig) + 1) : SubSeq(buf, i, i + Len(sig) - 1) = sig

\* a loop over the signatures that returns after the first one
verify_wiped_first_only(buf) == ~ AnyWindow(buf, Signatures[1])

\* the loop over the signatures: false at the first one found, else true
verify_wiped(buf) == ~ \E s \in 1..Len(Signatures) : AnyWindow(buf, Signatures[s])

\* a read that takes whatever the device holds for a full buffer
ReadsShort(dev, n) == TRUE

\* file.read_exact(&mut buffer) with a buffer of n bytes: Ok when the device
\* has n bytes to give, else the error UnexpectedEof
ReadsWhole(dev, n) == Len(dev) >= n

\* vec![0u8; n] after the read: the first n bytes of the device, and zeros
\* where the device had no byte to give
ReadBuffer(dev, n) == [i \in 1..n |-> IF i <= Len(dev) THEN dev[i] ELSE 0]

\* wiper.verify_wiped()?: open, read_exact of the prefix, scan
VerifyWiped ==
    /\ pc = "verify"
    /\ \/ /\ \E e \in OsErrors : hresult' = DeviceError("Failed to open device", e)
          /\ UNCHANGED << verified, message >>
       \/ /\ \E e \in OsErrors \cup (IF ReadsWhole(device, SCAN_LEN)
                                     THEN {} ELSE {"UnexpectedEof"}) :
                hresult' = DeviceError("Failed to read", e)
          /\ UNCHANGED << verified, message >>
       \/ /\ ReadsWhole(device, SCAN_LEN)
          /\ verified' = (IF verify_wiped(ReadBuffer(device, SCAN_LEN))
                          THEN "true" ELSE "false")
          /\ hresult' = OkResult
          /\ message' = "DEVICE NUKED"
    /\ pc' = "exit"
    /\ UNCHANGED << device, removable, force, verify, confirmed, wipeVars, logVars >>
    /\ UNCHANGED sideVars

(* ----------------------------- handle_nuke ---------------------------- *)

\* the check with the flag taken the wrong way round
RefusedWhenForced(rem, f) == ~rem /\ f

\* if !device.removable && !force { return Err(..) }
Refused(rem, f) == ~rem /\ ~f

\* handle_nuke(device_path, passes, pattern, force, verify) up to the first
\* prompt: find the device, refuse a fixed device without --force, and skip
\* the confirmations with --force
HandleNuke ==
    /\ pc = "start"
    /\ \E pat \in WipePatterns, n \in 0..MaxPasses, f \in BOOLEAN, v \in BOOLEAN :
          /\ pattern' = pat
          /\ passes' = n
          /\ force' = f
          /\ verify' = v
    /\ \/ /\ hresult' \in { DeviceError("Failed to read /sys/block", "EIO"),
                           DeviceError("Device not found", "") }
          /\ pc' = "exit"
          /\ UNCHANGED removable
       \/ /\ removable' \in BOOLEAN
          /\ IF Refused(removable', force')
             THEN /\ hresult' = DeviceError(
                         "Cannot nuke non-removable device without --force flag",
                         "")
                  /\ pc' = "exit"
             ELSE /\ pc' = IF force' THEN "nuke" ELSE "confirm1"
                  /\ UNCHANGED hresult
    /\ UNCHANGED << device, confirmed, verified, message, pass, kind, size, pos,
                    written, buffer, result, logVars >>
    /\ UNCHANGED sideVars

\* UsbBootHutError::Dialog(e.to_string())
DialogError == [variant |-> "Dialog", what |-> "", cause |-> "EIO"]

\* a declined confirmation that prints its line and goes on to the next step
ConfirmationNoReturn(at, next) ==
    /\ pc = at
    /\ \/ /\ confirmed' = confirmed + 1
          /\ pc' = next
          /\ UNCHANGED << hresult, message >>
       \/ /\ message' = "Operation cancelled."
          /\ pc' = next
          /\ UNCHANGED << confirmed, hresult >>
       \/ /\ hresult' = DialogError
          /\ pc' = "exit"
          /\ UNCHANGED << confirmed, message >>
    /\ UNCHANGED << device, removable, force, verify, verified, wipeVars, logVars >>
    /\ UNCHANGED sideVars

\* one of the three confirmations at pc = at: the two Confirm prompts and the
\* typed "nuke <name>" line; an accepted one leads to pc = next
Confirmation(at, next) ==
    /\ pc = at
    /\ \/ /\ confirmed' = confirmed + 1
          /\ pc' = next
          /\ UNCHANGED << hresult, message >>
       \/ /\ hresult' = OkResult
          /\ message' = "Operation cancelled."
          /\ pc' = "exit"
          /\ UNCHANGED confirmed
       \/ /\ hresult' = DialogError
          /\ pc' = "exit"
          /\ UNCHANGED << confirmed, message >>
    /\ UNCHANGED << device, removable, force, verify, verified, wipeVars, logVars >>
    /\ UNCHANGED sideVars

Confirm1 == Confirmation("confirm1", "confirm2")

Confirm2 == Confirmation("confirm2", "confirm3")

Confirm3 == Confirmation("confirm3", "nuke")

(* ------------------------------ the system ---------------------------- *)

Next ==
    \/ HandleNuke
    \/ Confirm1
    \/ Confirm2
    \/ Confirm3
    \/ NukeDrive
    \/ NextPass
    \/ OpenDevice
    \/ ReadRandom
    \/ WriteChunk
    \/ Progress
    \/ SyncAll
    \/ Return
    \/ VerifyWiped

Spec == Init /\ [][Next]_vars

(* ----------------------- verify_wiped on its own --------------------- *)

\* dev with bytes put at offset off (0-based), cut at the end of dev
Plant(dev, off, bytes) ==
    [i \in 1..Len(dev) |->
        IF i > off /\ i <= off + Len(bytes) THEN bytes[i - off] ELSE dev[i]]

\* devices filled with 0x00 or 0xFF that hold up to two signatures anywhere
VerifyDevices ==
    { Plant(Plant([i \in 1..n |-> fill], o1, Signatures[s1]), o2, Signatures[s2]) :
        n \in (SCAN_LEN - 1)..(SCAN_LEN + 1), fill \in {0, 255},
        o1 \in 0..SCAN_LEN, o2 \in 0..SCAN_LEN,
        s1 \in 1..Len(Signatures), s2 \in 1..Len(Signatures) }

\* handle_nuke at `if verify` after `nuke --pattern zeros --passes 0 --force
\* --verify`: no pass has run, and the device holds whatever it held
InitVerify ==
    /\ device \in VerifyDevices
    /\ pc = "verify"
    /\ removable = TRUE
    /\ force = TRUE
    /\ verify = TRUE
    /\ confirmed = 0
    /\ verified = "none"
    /\ message = "none"
    /\ hresult = NoResult
    /\ pattern = "Zeros"
    /\ passes = 0
    /\ pass = 0
    /\ kind = NoKind
    /\ size = 0
    /\ pos = 0
    /\ written = 0
    /\ buffer = << >>
    /\ result = OkResult
    /\ passLog = << >>
    /\ chunkLog = << >>
    /\ reports = << >>
    /\ synced = 0
    /\ writeCalls = 0
    /\ writeFailures = 0
    /\ opens = 0
    /\ sizings = 0
    /\ sinkCalls = 0
    /\ earlierCall = NoCall
    /\ grub = GrubIdle
    /\ fmt = FormatIdle

NextVerify == VerifyWiped

SpecVerify == InitVerify /\ [][NextVerify]_vars

(* --------------------- nuke_drive called a second time ------------------ *)

\* the patterns, pass counts and device sizes of the two calls
RestartPatterns == WipePatterns

RestartPasses == {1, 2}

RestartSizes == {0, 1, CHUNK_SIZE + 1}

\* a caller that holds a SecureWipe and is about to call nuke_drive on it
InitRestart ==
    /\ device \in { OldData(n) : n \in RestartSizes }
    /\ pc = "nuke"
    /\ removable = TRUE
    /\ force = TRUE
    /\ verify = FALSE
    /\ confirmed = 0
    /\ verified = "none"
    /\ message = "none"
    /\ hresult = NoResult
    /\ pattern \in RestartPatterns
    /\ passes \in RestartPasses
    /\ pass = 0
    /\ kind = NoKind
    /\ size = 0
    /\ pos = 0
    /\ written = 0
    /\ buffer = << >>
    /\ result = NoResult
    /\ passLog = << >>
    /\ chunkLog = << >>
    /\ reports = << >>
    /\ synced = 0
    /\ writeCalls = 0
    /\ writeFailures = 0
    /\ opens = 0
    /\ sizings = 0
    /\ sinkCalls = 0
    /\ earlierCall = NoCall
    /\ grub = GrubIdle
    /\ fmt = FormatIdle

\* the call has returned, Ok or with an error, and the caller calls
\* nuke_drive(pattern, passes, ..) on the same SecureWipe once more; what the
\* call that ended left in the model's variables stays until nuke_drive starts
NukeAgain ==
    /\ pc \in {"done", "failed"}
    /\ earlierCall = NoCall
    /\ earlierCall' = [variant |-> result.variant, pattern |-> pattern,
                       passes |-> passes, log |-> passLog]
    /\ pattern' \in RestartPatterns
    /\ passes' \in RestartPasses
    /\ pc' = "nuke"
    /\ UNCHANGED << device, cliVars, pass, kind, size, pos, written, buffer, result,
                    logVars, grub, fmt >>

NextRestart ==
    \/ NukeDrive
    \/ NextPass
    \/ OpenDevice
    \/ ReadRandom
    \/ WriteChunk
    \/ Progress
    \/ SyncAll
    \/ NukeAgain

SpecRestart == InitRestart /\ [][NextRestart]_vars

(* ------------------ one call of nuke_drive that goes on ------------------ *)

\* the steps of one call of nuke_drive
NextWipe ==
    \/ NukeDrive
    \/ NextPass
    \/ OpenDevice
    \/ ReadRandom
    \/ WriteChunk
    \/ Progress
    \/ SyncAll

\* one call of nuke_drive in which every device and entropy operation
\* returns, with Ok or with an error: a step that can be taken is taken
SpecWipe == InitRestart /\ [][NextWipe]_vars /\ WF_vars(NextWipe)

(* ------------------------- GrubInstaller::install ----------------------- *)

\* UsbBootHutError::Bootloader(format!("<what>: {}", e))
BootloaderError(what, e) == [variant |-> "Bootloader", what |-> what, cause |-> e]

\* TempDir::new and the two create_dir_all of install, with their messages
InstallDirSteps ==
    << "Failed to create temp dir", "Failed to create ESP mount",
       "Failed to create boot mount" >>

\* the fallible steps of install_grub_files, create_grub_config and
\* install_theme, in order, with their messages
GrubFileSteps ==
    << "Failed to create EFI dirs", "Failed to create grub dir",
       "Failed to run grub-install", "Failed to create grub.cfg",
       "Failed to write grub.cfg", "Failed to create theme dir",
       "Failed to create theme", "Failed to write theme" >>

\* the errors step i of install_grub_files can end with: grub-install can
\* fail to start or exit with a failure status
GrubFileErrors(i) ==
    { BootloaderError(GrubFileSteps[i], e) : e \in OsErrors }
       \cup (IF GrubFileSteps[i] = "Failed to run grub-install"
             THEN { BootloaderError("grub-install failed", "stderr") } ELSE {})

\* mount_partition: the command cannot be run, or exits with a failure status
MountErrors ==
    { BootloaderError("Failed to mount", e) : e \in OsErrors }
       \cup { BootloaderError("Mount failed", "stderr") }

\* everything but grub stays as it is
InstallFrame == UNCHANGED << device, pc, cliVars, wipeVars, logVars, earlierCall, fmt >>

\* install(esp_partition, boot_partition) at its first statement
InitInstall ==
    /\ device \in { OldData(0) }
    /\ pc = "exit"
    /\ removable = TRUE
    /\ force = FALSE
    /\ verify = FALSE
    /\ confirmed = 0
    /\ verified = "none"
    /\ message = "none"
    /\ hresult = NoResult
    /\ pattern = "Random"
    /\ passes = 1
    /\ pass = 0
    /\ kind = NoKind
    /\ size = 0
    /\ pos = 0
    /\ written = 0
    /\ buffer = << >>
    /\ result = NoResult
    /\ passLog = << >>
    /\ chunkLog = << >>
    /\ reports = << >>
    /\ synced = 0
    /\ writeCalls = 0
    /\ writeFailures = 0
    /\ opens = 0
    /\ sizings = 0
    /\ sinkCalls = 0
    /\ earlierCall = NoCall
    /\ grub = [GrubIdle EXCEPT !.pc = "dirs", !.step = 1]
    /\ fmt = FormatIdle

\* TempDir::new()?, create_dir_all(&esp_mount)?, create_dir_all(&boot_mount)?
InstallDirs ==
    /\ grub.pc = "dirs"
    /\ \/ grub' = IF grub.step < Len(InstallDirSteps)
                   THEN [grub EXCEPT !.step = grub.step + 1]
                   ELSE [grub EXCEPT !.pc = "mountEsp", !.step = 0]
       \/ \E e \in OsErrors :
             grub' = [grub EXCEPT !.pc = "returned",
                         !.ret = BootloaderError(InstallDirSteps[grub.step], e)]
    /\ InstallFrame

\* self.mount_partition(esp_partition, &esp_mount)?
MountEsp ==
    /\ grub.pc = "mountEsp"
    /\ \/ grub' = [grub EXCEPT !.pc = "mountBoot",
                       !.mounted = grub.mounted \cup {"esp"},
                       !.byInstall = grub.byInstall \cup {"esp"}]
       \/ \E err \in MountErrors :
             grub' = [grub EXCEPT !.pc = "returned", !.ret = err]
    /\ InstallFrame

\* self.mount_partition(boot_partition, &boot_mount)?
MountBoot ==
    /\ grub.pc = "mountBoot"
    /\ \/ grub' = [grub EXCEPT !.pc = "files", !.step = 1,
                       !.mounted = grub.mounted \cup {"boot"},
                       !.byInstall = grub.byInstall \cup {"boot"}]
       \/ \E err \in MountErrors :
             grub' = [grub EXCEPT !.pc = "returned", !.ret = err]
    /\ InstallFrame

\* let result = self.install_grub_files(&esp_mount, &boot_mount): its steps
\* one by one, the first that fails ends it with its error
InstallGrubFiles ==
    /\ grub.pc = "files"
    /\ \/ grub' = IF grub.step < Len(GrubFileSteps)
                   THEN [grub EXCEPT !.step = grub.step + 1]
                   ELSE [grub EXCEPT !.pc = "umountBoot", !.result = OkResult]
       \/ \E err \in GrubFileErrors(grub.step) :
             grub' = [grub EXCEPT !.pc = "umountBoot", !.result = err]
    /\ InstallFrame

\* let _ = self.unmount_partition(mount): umount is run, and whether it
\* unmounted the partition or failed is dropped
Unmount(part, next) ==
    /\ \/ grub' = [grub EXCEPT !.pc = next, !.tried = grub.tried \cup {part},
                       !.mounted = grub.mounted \ {part}]
       \/ grub' = [grub EXCEPT !.pc = next, !.tried = grub.tried \cup {part}]
    /\ InstallFrame

\* if boot_mounted { let _ = self.unmount_partition(&boot_mount); }
UnmountBoot == grub.pc = "umountBoot" /\ Unmount("boot", "umountEsp")

\* if esp_mounted { let _ = self.unmount_partition(&esp_mount); }
UnmountEsp == grub.pc = "umountEsp" /\ Unmount("esp", "result")

\* result?; Ok(())
InstallReturn ==
    /\ grub.pc = "result"
    /\ grub' = [grub EXCEPT !.pc = "returned", !.ret = grub.result]
    /\ InstallFrame

NextInstall ==
    \/ InstallDirs
    \/ MountEsp
    \/ MountBoot
    \/ InstallGrubFiles
    \/ UnmountBoot
    \/ UnmountEsp
    \/ InstallReturn

SpecInstall == InitInstall /\ [][NextInstall]_vars

(* ----------------------- DriveManager::secure_format ------------------- *)

\* MIN_DRIVE_SIZE (4 GB), in the bytes of the model's devices
MIN_DRIVE_SIZE == 5

\* the device sizes secure_format is run on: below and from MIN_DRIVE_SIZE
FormatSizes == {1, CHUNK_SIZE + 1, MaxSize}

\* a fallible step of format_and_setup and the error variant it fails with
FormatStep(fn, variant) == [fn |-> fn, variant |-> variant]

\* step 5 of format_and_setup: LUKS on the data partition when encryption is
\* enabled and a passphrase was given, an error when none was given, else mkfs
DataSteps(encrypt, passphrase) ==
    IF encrypt
    THEN IF passphrase
         THEN << FormatStep("create_encrypted_partition", "Encryption"),
                 FormatStep("open_encrypted_partition", "Encryption"),
                 FormatStep("format_data", "Partition"),
                 FormatStep("close_encrypted_partition", "Encryption") >>
         ELSE << FormatStep("Passphrase required for encryption", "Encryption") >>
    ELSE << FormatStep("format_data", "Partition") >>

\* steps 1 to 6 of format_and_setup in the order of the code
FormatPlan(encrypt, passphrase) ==
    << FormatStep("wipe_partition_table", "Partition"),
       FormatStep("create_gpt", "Partition"),
       FormatStep("create_esp_partition", "Partition"),
       FormatStep("create_boot_partition", "Partition"),
       FormatStep("create_data_partition", "Partition"),
       FormatStep("format_esp", "Partition"),
       FormatStep("format_boot", "Partition") >>
    \o DataSteps(encrypt, passphrase)
    \o << FormatStep("install_grub", "Bootloader") >>

\* a secure_format that goes on to format_and_setup whatever the wipe returned
AfterWipeIgnored(p) == "validate"

\* wiper.wipe_with_progress(..)?: where secure_format goes when the wipe has
\* returned at p, "failed" with an error or "sched" with Ok
AfterWipe(p) == IF p = "failed" THEN "returned" ELSE "validate"

\* secure_format at the first statement of wipe_with_progress; the UsbDevice
\* of the DriveManager has its removable flag, its size and its partition
\* labels from enumeration
InitFormat ==
    /\ \E n \in FormatSizes : device = OldData(n)
    /\ pc = "open"
    /\ removable \in BOOLEAN
    /\ force = FALSE
    /\ verify = FALSE
    /\ confirmed = 0
    /\ verified = "none"
    /\ message = "none"
    /\ hresult = NoResult
    /\ pattern = "Random"
    /\ passes = 1
    /\ pass = 1
    /\ kind = RandomPass
    /\ size = 0
    /\ pos = 0
    /\ written = 0
    /\ buffer = << >>
    /\ result = NoResult
    /\ passLog = << >>
    /\ chunkLog = << >>
    /\ reports = << >>
    /\ synced = 0
    /\ writeCalls = 0
    /\ writeFailures = 0
    /\ opens = 0
    /\ sizings = 0
    /\ sinkCalls = 0
    /\ earlierCall = NoCall
    /\ grub = GrubIdle
    /\ \E sy, en, pp \in BOOLEAN :
          fmt = [FormatIdle EXCEPT !.pc = "wipe", !.system = sy, !.encrypt = en,
                                   !.passphrase = pp]

\* everything but fmt stays as it is
FormatFrame == UNCHANGED << device, pc, cliVars, wipeVars, logVars, earlierCall, grub >>

\* wipe_with_progress has returned: its error goes up through `?`, after Ok
\* secure_format calls format_and_setup
FormatAfterWipe ==
    /\ fmt.pc = "wipe"
    /\ pc \in {"sched", "failed"}
    /\ fmt' = IF AfterWipe(pc) = "returned"
              THEN [fmt EXCEPT !.pc = "returned", !.ret = result]
              ELSE [fmt EXCEPT !.pc = AfterWipe(pc)]
    /\ pc' = "exit"
    /\ UNCHANGED << device, cliVars, wipeVars, logVars, earlierCall, grub >>

\* self.device.is_valid_for_boot()? and the has_system_files safety check
FormatValidate ==
    /\ fmt.pc = "validate"
    /\ fmt' =
         IF ~ removable
         THEN [fmt EXCEPT !.pc = "returned", !.checks = << "is_valid_for_boot" >>,
                          !.ret = DeviceError("Device is not removable", "")]
         ELSE IF Len(device) < MIN_DRIVE_SIZE
         THEN [fmt EXCEPT !.pc = "returned", !.checks = << "is_valid_for_boot" >>,
                          !.ret = DeviceError("Device too small", "")]
         ELSE IF fmt.system
         THEN [fmt EXCEPT !.pc = "returned",
                          !.checks = << "is_valid_for_boot", "has_system_files" >>,
                          !.ret = DeviceError("Device appears to contain system files", "")]
         ELSE [fmt EXCEPT !.pc = "steps",
                          !.checks = << "is_valid_for_boot", "has_system_files" >>]
    /\ FormatFrame

\* the next step of format_and_setup runs: it succeeds, or its error goes up
\* through `?`; after the last step format_and_setup returns Ok
FormatNextStep ==
    /\ fmt.pc = "steps"
    /\ LET plan == FormatPlan(fmt.encrypt, fmt.passphrase)
           i == Len(fmt.steps) + 1 IN
       IF i > Len(plan)
       THEN fmt' = [fmt EXCEPT !.pc = "returned", !.ret = OkResult]
       ELSE IF plan[i].fn = "Passphrase required for encryption"
       THEN fmt' = [fmt EXCEPT !.pc = "returned",
                       !.ret = [variant |-> plan[i].variant, what |-> plan[i].fn,
                                cause |-> ""]]
       ELSE \/ fmt' = [fmt EXCEPT !.steps = Append(fmt.steps, plan[i].fn)]
            \/ \E e \in OsErrors :
                  fmt' = [fmt EXCEPT !.pc = "returned",
                             !.steps = Append(fmt.steps, plan[i].fn),
                             !.ret = [variant |-> plan[i].variant,
                                      what |-> plan[i].fn, cause |-> e]]
    /\ FormatFrame

NextFormat ==
    \/ OpenDevice
    \/ ReadRandom
    \/ WriteChunk
    \/ Progress
    \/ SyncAll
    \/ FormatAfterWipe
    \/ FormatValidate
    \/ FormatNextStep

SpecFormat == InitFormat /\ [][NextFormat]_vars

(* ------------------------------ the claims ---------------------------- *)

InPass == pc \in {"open", "read", "write", "progress", "sync"}

RECURSIVE SumLengths(_)
SumLengths(log) ==
    IF log = << >> THEN 0 ELSE log[1].length + SumLengths(Tail(log))

\* the chunks of log lie one after the other from offset 0
Contiguous(log) ==
    \A i \in 1..Len(log) : log[i].offset = SumLengths(SubSeq(log, 1, i - 1))

\* a pass function has returned Ok: the state right after its sync_all
PassReturnedOk == pc = "sched" /\ pass >= 1

\* C1: for every pattern and every pass that returns success, the chunk writes
\* of the pass are contiguous from offset 0 and their sizes sum to exactly the
\* device size (so every byte of [0, size) is written and `written` equals the
\* size: no short write passes for success); and at no time, in a successful
\* or a failing pass, a chunk reaches past the size or lengthens the device.
C1_PassWritesWholeDevice ==
    /\ PassReturnedOk =>
          /\ SumLengths(chunkLog) = Len(device)
          /\ Contiguous(chunkLog)
          /\ written = size
          /\ \A i \in 1..Len(chunkLog) : chunkLog[i].length > 0
    /\ (InPass \/ PassReturnedOk) /\ pc # "open" =>
          /\ size = Len(device)
          /\ \A i \in 1..Len(chunkLog) :
                chunkLog[i].offset + chunkLog[i].length <= size

\* a pass of three chunks, the last one shorter than the buffer, has returned Ok
C1_Witness ==
    /\ PassReturnedOk
    /\ Len(chunkLog) = 3
    /\ chunkLog[3].length < CHUNK_SIZE

\* C2: once a write_all has failed in pass p, nuke_drive returns that error
\* (and handle_nuke passes it on), and nothing of the device changes any more
\* in that call: the failed chunk is not written again, no further chunk of
\* pass p is written and no later pass starts.
C2_WriteFailureEndsWipe ==
    [][ /\ writeFailures' >= 1 =>
              /\ writeFailures' = 1
              /\ pc' \in {"failed", "exit"}
              /\ result'.variant = "Device"
              /\ result'.what = "Failed to write"
              /\ pc' = "exit" => hresult' = result'
        /\ writeFailures >= 1 =>
              /\ device' = device
              /\ writeCalls' = writeCalls
              /\ chunkLog' = chunkLog
              /\ written' = written
              /\ pass' = pass
              /\ passLog' = passLog ]_vars

\* the second chunk of pass 2 of the three DoD passes has failed
C2_Witness ==
    /\ pattern = "Dod"
    /\ pc = "failed"
    /\ writeFailures = 1
    /\ pass = 2
    /\ written > 0

\* C3: the passes of a wipe start in index order 1, 2, ..., never more than
\* the total, and one at a time: pass k+1 starts, and any write_all of it is
\* made, only when the sync_all of every pass up to k has completed.
C3_PassesInOrder ==
    [][ /\ pass' # pass => pass' = pass + 1 /\ synced = pass
        /\ writeCalls' # writeCalls => synced = pass - 1
        /\ Len(passLog') = pass'
        /\ \A i \in 1..Len(passLog') : passLog'[i].index = i
        /\ pass' <= TotalPasses(pattern', passes')
        /\ synced' \in {synced, synced + 1} \/ pc = "nuke" ]_vars

\* the third pass writes its second chunk after two passes have been synced
C3_Witness ==
    /\ pc = "write"
    /\ pass = 3
    /\ synced = 2
    /\ written > 0

DeviceAll(b) == \A i \in 1..Len(device) : device[i] = b

\* C4: a DoD wipe runs the passes 1/3, 2/3, 3/3 and no other, whatever pass
\* count the caller gave: pass 1 writes 0x00 over the device, pass 2 writes
\* 0xFF, pass 3 is random; when nuke_drive returns Ok all three have run.
C4_DodThreePasses ==
    pattern = "Dod" =>
       /\ Len(passLog) <= 3
       /\ \A i \in 1..Len(passLog) : passLog[i].index = i /\ passLog[i].total = 3
       /\ Len(passLog) >= 1 =>
             passLog[1].kind = [fn |-> "wipe_with_pattern", bytes |-> <<0>>]
       /\ Len(passLog) >= 2 =>
             passLog[2].kind = [fn |-> "wipe_with_pattern", bytes |-> <<255>>]
       /\ Len(passLog) >= 3 => passLog[3].kind.fn = "wipe_with_random"
       /\ PassReturnedOk /\ pass = 1 => DeviceAll(0)
       /\ PassReturnedOk /\ pass = 2 => DeviceAll(255)
       /\ result = OkResult => Len(passLog) = 3 /\ synced = 3

\* a DoD wipe asked for no pass at all has run its three passes on a device
C4_Witness ==
    /\ pattern = "Dod"
    /\ passes = 0
    /\ result = OkResult
    /\ Len(passLog) = 3
    /\ Len(device) = MaxSize

\* the passes of the Gutmann wipe whose pattern is random
GutmannRandomPasses == (1..4) \cup (32..35)

\* C5: a Gutmann wipe runs the passes 1/35 .. 35/35 in the order of its table,
\* whatever pass count the caller gave: passes 1-4 and 32-35 are random, each
\* of the passes 5-31 repeats the three bytes of its table entry; when
\* nuke_drive returns Ok all 35 have run.
C5_GutmannThirtyFivePasses ==
    pattern = "Gutmann" =>
       /\ Len(passLog) <= 35
       /\ \A i \in 1..Len(passLog) :
             /\ passLog[i].index = i
             /\ passLog[i].total = 35
             /\ i \in GutmannRandomPasses =>
                   passLog[i].kind = [fn |-> "wipe_with_random", bytes |-> << >>]
             /\ i \notin GutmannRandomPasses =>
                   /\ passLog[i].kind.fn = "wipe_with_repeating_pattern"
                   /\ Len(passLog[i].kind.bytes) = 3
                   /\ passLog[i].kind.bytes = GutmannPatterns[i]
       /\ PassReturnedOk /\ pass \notin GutmannRandomPasses =>
             \A o \in 1..Min(Len(device), CHUNK_SIZE) :
                device[o] = GutmannPatterns[pass][((o - 1) % 3) + 1]
       /\ result = OkResult => Len(passLog) = 35 /\ synced = 35

\* a Gutmann wipe asked for no pass at all has run its 35 passes on a device
C5_Witness ==
    /\ pattern = "Gutmann"
    /\ passes = 0
    /\ result = OkResult
    /\ Len(passLog) = 35
    /\ Len(device) = MaxSize

\* C6: a Zeros or Random wipe with pass count N >= 1 runs the passes 1/N ..
\* N/N and no other, each of the kind asked for (0x00 written over the device
\* for Zeros, random for Random); when nuke_drive returns Ok all N have run.
C6_SinglePatternNPasses ==
    pattern \in {"Random", "Zeros"} /\ passes >= 1 =>
       /\ Len(passLog) <= passes
       /\ \A i \in 1..Len(passLog) :
             /\ passLog[i].index = i
             /\ passLog[i].total = passes
             /\ passLog[i].kind =
                   (IF pattern = "Zeros"
                    THEN [fn |-> "wipe_with_pattern", bytes |-> <<0>>]
                    ELSE [fn |-> "wipe_with_random", bytes |-> << >>])
       /\ pattern = "Zeros" /\ PassReturnedOk => DeviceAll(0)
       /\ result = OkResult => Len(passLog) = passes /\ synced = passes

\* a Random wipe of several passes has returned Ok
C6_Witness ==
    /\ pattern = "Random"
    /\ passes >= 2
    /\ result = OkResult
    /\ Len(passLog) = passes
    /\ Len(device) > CHUNK_SIZE

\* C7: a Zeros or Random wipe asked for with pass count 0 ends in a
\* configuration error, returned before the device is opened or written; it
\* never returns Ok.
C7_ZeroPassesRejected ==
    pattern \in {"Random", "Zeros"} /\ passes = 0 /\ pc \in {"done", "failed"} =>
       /\ result.variant = "Config"
       /\ pass = 0
       /\ writeCalls = 0

\* sig lies in buf at offset off (0-based)
SignatureAt(buf, off, sig) ==
    /\ off + Len(sig) <= Len(buf)
    /\ SubSeq(buf, off + 1, off + Len(sig)) = sig

\* a signature as the specification counts them: the GPT text, "NTFS" and
\* "FAT32" anywhere, 55 AA only at the MBR offset, 53 EF only at the ext offset
SignatureAtItsPlace(buf) ==
    \/ AnyWindow(buf, Signatures[1])
    \/ SignatureAt(buf, MBR_OFFSET, Signatures[2])
    \/ AnyWindow(buf, Signatures[3])
    \/ AnyWindow(buf, Signatures[4])
    \/ SignatureAt(buf, EXT_OFFSET, Signatures[5])

\* C8: verify_wiped returns true exactly when the prefix it read holds none
\* of: the GPT header text, 55 AA at the MBR offset, 53 EF at the ext offset,
\* "NTFS" at any offset, "FAT32" at any offset.
C8_VerifyCountsSignaturesAtTheirPlace ==
    verified # "none" =>
       (verified = "true" <=> ~ SignatureAtItsPlace(SubSeq(device, 1, SCAN_LEN)))

\* handle_nuke has come to its call of nuke_drive, or is past it
ReachedNukeDrive ==
    \/ pc \in {"nuke", "sched", "open", "read", "write", "progress", "sync",
               "done", "failed", "verify"}
    \/ result # NoResult

\* C9 as claimed: whenever handle_nuke reaches nuke_drive, the operator has
\* accepted the three confirmations in that invocation.
C9_NukeOnlyAfterConfirmations == ReachedNukeDrive => confirmed = 3

\* C9 amended: without --force, handle_nuke reaches nuke_drive and writes to
\* the device only after the operator has accepted all three confirmations
\* in that invocation; a declined or mismatched confirmation (and a failed
\* prompt) ends handle_nuke with nuke_drive not called and the device
\* untouched; with --force no confirmation is asked for at all.
C9_NukeOnlyAfterConfirmationsUnlessForced ==
    /\ ReachedNukeDrive /\ ~force => confirmed = 3
    /\ ReachedNukeDrive /\ force => confirmed = 0
    /\ writeCalls > 0 /\ ~force => confirmed = 3
    /\ message = "Operation cancelled." \/ hresult.variant = "Dialog" =>
          /\ ~force
          /\ confirmed < 3
          /\ ~ReachedNukeDrive
          /\ pc = "exit"
          /\ writeCalls = 0
          /\ device = OldData(Len(device))

\* the wipe is writing after three accepted confirmations, --force not given
C9_Witness ==
    /\ ~force
    /\ confirmed = 3
    /\ pc = "progress"
    /\ writeCalls > 0

UnsyncedWrites ==
    /\ pc \in {"read", "write", "progress", "sync"}
    /\ Len(chunkLog) >= 1

\* C11: a pass function returns Ok only out of a completed sync_all that comes
\* after its last chunk write: control goes back to the caller with Ok only
\* from the sync step, with the whole size written, the sync counted and no
\* write in that step, so every pass that has returned Ok is a synced pass and
\* nuke_drive returns Ok only with every pass synced; a sync_all that fails
\* makes the pass, and the wipe, return the error "Failed to sync" instead
C11_OkOnlyAfterSync ==
    [][ /\ (pc' = "sched" /\ pc # "nuke") =>
              /\ pc = "sync"
              /\ written = size
              /\ synced' = synced + 1
              /\ writeCalls' = writeCalls
              /\ device' = device
              /\ synced' = pass'
        /\ (pc = "sync" /\ synced' = synced) =>
              /\ pc' = "failed"
              /\ result'.variant = "Device"
              /\ result'.what = "Failed to sync"
        /\ UnsyncedWrites' => result' = NoResult
        /\ (pc' = "done") => (result' = OkResult /\ synced' = Len(passLog'))
      ]_vars

\* a pass with chunk writes has returned Ok, its sync completed
C11_Witness ==
    /\ PassReturnedOk
    /\ Len(chunkLog) >= 2
    /\ synced = pass
    /\ pass = 2

\* the per-chunk reports of the running pass, one for each chunk whose report
\* has been made: report i carries the bytes written up to and with chunk i
ReportsFollowChunks ==
    /\ Len(reports) = Len(chunkLog) - (IF pc = "progress" THEN 1 ELSE 0)
    /\ \A i \in 1..Len(reports) :
          /\ reports[i].written = SumLengths(SubSeq(chunkLog, 1, i))
          /\ reports[i].percent \in 0..100
          /\ (reports[i].percent = 100) = (reports[i].written = size)

\* C12: within a pass chunk writes and per-chunk progress callbacks alternate
\* strictly: a write_all that succeeds is followed by exactly one callback,
\* made before any other write, which reports the bytes written so far in the
\* pass (as their percentage of the size, 100 exactly when all is written); no
\* callback is made but after a write that went through, and a write that
\* failed is followed by none.
C12_WritesAndProgressAlternate ==
    [][ /\ ReportsFollowChunks'
        /\ (writeCalls' # writeCalls /\ pc # "nuke") =>
              /\ pc = "write"
              /\ reports' = reports
              /\ \/ /\ Len(chunkLog') = Len(chunkLog) + 1
                    /\ SubSeq(chunkLog', 1, Len(chunkLog)) = chunkLog
                    /\ pc' = "progress"
                 \/ /\ chunkLog' = chunkLog
                    /\ pc' = "failed"
        /\ (pc = "progress") =>
              /\ Len(reports') = Len(reports) + 1
              /\ SubSeq(reports', 1, Len(reports)) = reports
              /\ reports'[Len(reports')].written = written
              /\ written = SumLengths(chunkLog)
              /\ writeCalls' = writeCalls
              /\ chunkLog' = chunkLog
              /\ pc' # "progress"
        /\ (reports' # reports /\ reports' # << >>) => pc = "progress"
        /\ (pc = "failed") => reports' = reports
      ]_vars

\* three chunks written and reported, the last report made
C12_Witness ==
    /\ pc = "sync"
    /\ Len(chunkLog) = 3
    /\ Len(reports) = 3
    /\ reports[2].written = 2 * CHUNK_SIZE
    /\ reports[3].percent = 100

\* the pass that is running is a pass of wipe_with_progress
RandomPassRunning == InPass /\ kind.fn = "wipe_with_random"

\* C13: in a random pass every write_all is preceded by a read_exact of
\* /dev/urandom of its own, made after the write before it: the write step is
\* entered from a read that went through and from nowhere else, it writes the
\* buffer that read delivered, and after a write (and its progress callback)
\* the loop comes to the next write through the next read only. A read_exact
\* that fails ends the pass with "Failed to read random" and the chunk it was
\* for is not written: the device is as it was and no write follows.
C13_RandomReadBeforeEveryWrite ==
    [][ /\ (RandomPassRunning' /\ pc' = "write") =>
              /\ pc = "read"
              /\ buffer' \in RandomBuffers
        /\ (RandomPassRunning /\ pc = "write") =>
              /\ pc' \in {"progress", "failed"}
              /\ writeCalls' = writeCalls + 1
              /\ (pc' = "progress") =>
                    /\ Len(chunkLog') = Len(chunkLog) + 1
                    /\ SubSeq(device', pos + 1, pos') =
                          SubSeq(buffer, 1, chunkLog'[Len(chunkLog')].length)
        /\ (RandomPassRunning /\ pc = "progress") => pc' \in {"read", "sync"}
        /\ (RandomPassRunning /\ pc # "write") =>
              (writeCalls' = writeCalls /\ device' = device)
        /\ (RandomPassRunning /\ pc = "read" /\ pc' # "write") =>
              /\ pc' = "failed"
              /\ result' = DeviceError("Failed to read random", result'.cause)
              /\ device' = device
              /\ writeCalls' = writeCalls
        /\ (pc = "failed") => (device' = device /\ writeCalls' = writeCalls)
      ]_vars

\* a random pass has read and written two chunks; a third read has failed
C13_Witness ==
    /\ pc = "failed"
    /\ kind.fn = "wipe_with_random"
    /\ result.what = "Failed to read random"
    /\ Len(chunkLog) = 2
    /\ writeCalls = 2
    /\ written < size

\* a pass of wipe_with_pattern or wipe_with_repeating_pattern is past its head
FixedPassRunning ==
    /\ pc \in {"write", "progress", "sync"}
    /\ kind.fn \in {"wipe_with_pattern", "wipe_with_repeating_pattern"}

\* C14: in a fixed-pattern pass the chunk buffer is filled once, before the
\* first write, with the byte or with the pattern repeated from its first byte,
\* and no step of the pass changes it; every chunk written is the first
\* `length` bytes of that buffer, where length is CHUNK_SIZE for every chunk
\* but the last and what remains of the size for the last.
C14_FixedBufferFilledOnce ==
    [][ /\ FixedPassRunning => buffer' = buffer
        /\ FixedPassRunning' =>
              /\ Len(buffer') = CHUNK_SIZE
              /\ \A i \in 1..CHUNK_SIZE :
                    buffer'[i] = kind'.bytes[((i - 1) % Len(kind'.bytes)) + 1]
              /\ \A c \in 1..Len(chunkLog') :
                    /\ chunkLog'[c].length \in 1..CHUNK_SIZE
                    /\ c < Len(chunkLog') => chunkLog'[c].length = CHUNK_SIZE
                    /\ chunkLog'[c].length < CHUNK_SIZE =>
                          chunkLog'[c].length = size' - chunkLog'[c].offset
                    /\ \A j \in 1..chunkLog'[c].length :
                          device'[chunkLog'[c].offset + j] = buffer'[j]
      ]_vars

\* a pass with a three-byte pattern has written a whole chunk and a shorter one
C14_Witness ==
    /\ FixedPassRunning
    /\ pc = "sync"
    /\ Len(kind.bytes) = 3
    /\ kind.bytes[1] # kind.bytes[2]
    /\ Len(chunkLog) = 2
    /\ chunkLog[2].length \in 1..(CHUNK_SIZE - 1)

\* nuke_drive(WipePattern::Zeros, 1, ..) has returned Ok on a device that is
\* not empty
SingleZeroPassDone ==
    /\ pattern = "Zeros"
    /\ passes = 1
    /\ Len(device) > 0
    /\ pc \in {"done", "verify", "exit"}
    /\ result = OkResult

\* the chunks a device of n bytes takes
Chunks(n) == (n + CHUNK_SIZE - 1) \div CHUNK_SIZE

\* C15 as stated: after a single zero pass on a device of S > 0 bytes that
\* returned Ok, the device is all 0x00 and the caller's progress callback has
\* been called exactly ceil(S / CHUNK_SIZE) times.
C15_SinkCalledOncePerChunk ==
    SingleZeroPassDone =>
       /\ DeviceAll(0)
       /\ sinkCalls = Chunks(Len(device))

\* C15: after a single zero pass on a device of S > 0 bytes that returned Ok,
\* the device is all 0x00 and the caller's progress callback has been called
\* 1 + ceil(S / CHUNK_SIZE) times: once to announce pass 1/1, then once after
\* each chunk, with the percentage of the bytes written so far; the bytes
\* written strictly increase from report to report, the percentages never
\* decrease, and the last report is of S bytes, 100 percent. A single zero pass
\* that does not return Ok has returned the error of a failed device call.
C15_SingleZeroPass ==
    /\ SingleZeroPassDone =>
          /\ DeviceAll(0)
          /\ passLog = << [index |-> 1, total |-> 1, kind |-> BytePass(0)] >>
          /\ Len(reports) = Chunks(Len(device))
          /\ sinkCalls = 1 + Chunks(Len(device))
          /\ \A i \in 1..(Len(reports) - 1) :
                /\ reports[i].written < reports[i + 1].written
                /\ reports[i].percent <= reports[i + 1].percent
          /\ reports[Len(reports)].written = Len(device)
          /\ reports[Len(reports)].percent = 100
    /\ (pattern = "Zeros" /\ passes = 1 /\ pc = "failed") =>
          (result.variant = "Device" /\ result.cause \in OsErrors)

\* a single zero pass over three chunks, the last one short, has returned Ok
C15_Witness ==
    /\ SingleZeroPassDone
    /\ Len(device) = 2 * CHUNK_SIZE + 1
    /\ Len(reports) = 3
    /\ sinkCalls = 4

\* the running pass is on a device shorter than one chunk and not empty
ShortDevicePass ==
    /\ pc \in {"read", "write", "progress", "sync", "sched"}
    /\ pass >= 1
    /\ size \in 1..(CHUNK_SIZE - 1)

\* C16: on a device of 0 < size < CHUNK_SIZE a pass makes one chunk write, of
\* exactly size bytes at offset 0, and one per-chunk progress callback, which
\* reports 100 percent: before the write nothing is logged, after it the one
\* chunk, after the callback the one report, and the pass comes to its
\* sync_all and returns with exactly these; the device keeps its length.
C16_ShortDeviceOneWrite ==
    ShortDevicePass =>
       /\ Len(device) = size
       /\ (pc \in {"read", "write"}) => (chunkLog = << >> /\ reports = << >>)
       /\ (pc \in {"progress", "sync", "sched"}) =>
             /\ chunkLog = << [offset |-> 0, length |-> size] >>
             /\ written = size
       /\ (pc = "progress") => reports = << >>
       /\ (pc \in {"sync", "sched"}) =>
             /\ Len(reports) = 1
             /\ reports[1].written = size
             /\ reports[1].percent = 100

\* a pass on a device one byte short of a chunk has returned Ok
C16_Witness ==
    /\ PassReturnedOk
    /\ size = CHUNK_SIZE - 1
    /\ Len(chunkLog) = 1
    /\ Len(reports) = 1

\* the errors of the device calls a pass makes outside its loop
HeadAndSyncErrors ==
    {"Failed to open device", "Failed to get size", "Failed to seek",
     "Failed to open /dev/urandom", "Failed to sync"}

\* C17: on a device of size 0 no pass of any pattern makes a chunk write, a
\* read of /dev/urandom or a per-chunk progress callback: each pass goes from
\* its head straight to sync_all, the callback is called for the pass
\* announcements only, and nuke_drive returns Ok after all its passes, unless
\* an open, a seek or a sync_all of the device itself failed.
C17_EmptyDeviceNoWrites ==
    Len(device) = 0 =>
       /\ pc \notin {"read", "write", "progress"}
       /\ writeCalls = 0
       /\ chunkLog = << >>
       /\ reports = << >>
       /\ sinkCalls = Len(passLog)
       /\ written = 0
       /\ (pc = "failed") =>
             (result.variant = "Device" /\ result.what \in HeadAndSyncErrors)
       /\ (pc = "done") =>
             /\ result = OkResult
             /\ synced = Len(nuke_drive(pattern, passes))
             /\ Len(passLog) = synced

\* a three-pass wipe of an empty device has returned Ok
C17_Witness ==
    /\ Len(device) = 0
    /\ pc = "done"
    /\ result = OkResult
    /\ passes >= 1
    /\ synced = 3
    /\ writeCalls = 0

\* the prefix of the device that verify_wiped has read
ScannedPrefix == SubSeq(device, 1, SCAN_LEN)

\* the five byte sequences verify_wiped looks for
SignatureBytes ==
    { <<69, 70, 73, 32, 80, 65, 82, 84>>, <<85, 170>>, <<78, 84, 70, 83>>,
      <<70, 65, 84, 51, 50>>, <<83, 239>> }

\* buf holds none of the five sequences at any offset
NoSignatureAnywhere(buf) ==
    \A off \in 0..(Len(buf) - 1), sig \in SignatureBytes : ~ SignatureAt(buf, off, sig)

\* C18: whenever verify_wiped returns a value for a device whose scanned
\* prefix holds none of the five signature sequences at any offset, the value
\* is true; so it is for a prefix that is all 0x00, whatever lies behind it.
\* verify_wiped returns a value whenever its open and its read go through.
C18_VerifyTrueWithoutSignatures ==
    /\ (verified # "none" /\ NoSignatureAnywhere(ScannedPrefix)) => verified = "true"
    /\ (verified # "none" /\ \A i \in 1..SCAN_LEN : device[i] = 0) => verified = "true"
    /\ (pc = "exit" /\ hresult = OkResult) => verified # "none"

\* verify_wiped has returned true for a device whose scanned prefix is all
\* 0x00, with a byte of a signature behind the prefix
C18_Witness ==
    /\ pc = "exit"
    /\ verified = "true"
    /\ Len(device) = SCAN_LEN + 1
    /\ \A i \in 1..SCAN_LEN : device[i] = 0
    /\ device[SCAN_LEN + 1] # 0

\* C19: whenever verify_wiped returns a value for a device that holds 55 AA
\* at the MBR offset, the value is false, whatever else the scanned prefix
\* holds (a device of at least SCAN_LEN bytes: a shorter one fails the read).
C19_VerifyFalseWithMbrSignature ==
    /\ (verified # "none" /\ SignatureAt(ScannedPrefix, MBR_OFFSET, <<85, 170>>)) =>
          verified = "false"
    /\ verified # "none" => Len(device) >= SCAN_LEN

\* verify_wiped has returned false for a device of 0xFF bytes whose only
\* signature is 55 AA at the MBR offset
C19_Witness ==
    /\ pc = "exit"
    /\ verified = "false"
    /\ SignatureAt(ScannedPrefix, MBR_OFFSET, <<85, 170>>)
    /\ \A i \in 1..SCAN_LEN :
          (i \notin {MBR_OFFSET + 1, MBR_OFFSET + 2}) => device[i] = 255

\* C20 as stated: one call of nuke_drive opens the device once and asks for its
\* size once, however many passes it runs.
C20_OpenedOncePerCall ==
    /\ opens <= 1
    /\ sizings <= 1

\* what holds of the opens and the size in every state of a call of nuke_drive
OpenedOncePerPass ==
    /\ (pc = "open") => (opens = pass - 1 /\ sizings = pass - 1)
    /\ (pc \in {"read", "write", "progress", "sync"} \/ PassReturnedOk) =>
          /\ opens = pass
          /\ sizings = pass
          /\ size = Len(device)
    /\ (pc = "failed") => (opens \in {pass - 1, pass} /\ sizings \in {pass - 1, pass})
    /\ (pc = "done") =>
          /\ opens = Len(nuke_drive(pattern, passes))
          /\ sizings = opens

\* C20: a call of nuke_drive opens the device and asks for its size once for
\* every pass, at the head of the pass: before the head of pass p it has
\* opened p - 1 handles, after it p, and when it returns Ok as many as it ran
\* passes (3 for DoD, 35 for Gutmann, the pass count otherwise). Inside a pass
\* no other handle is opened and the size is not asked for again: the chunks
\* of a pass are written through the one handle and against the one size its
\* head obtained.
C20_OpenedOncePerPass ==
    [][ /\ OpenedOncePerPass'
        /\ (pc \in {"read", "write", "progress", "sync"}) =>
              /\ opens' = opens
              /\ sizings' = sizings
              /\ size' = size
        /\ (opens' # opens /\ pc # "nuke") => (pc = "open" /\ opens' = opens + 1)
      ]_vars

\* a DoD wipe has returned Ok with three handles opened, one for each pass
C20_Witness ==
    /\ pc = "done"
    /\ pattern = "Dod"
    /\ opens = 3
    /\ sizings = 3
    /\ Len(device) > CHUNK_SIZE

\* the kind of error the specification gives to a failed operation of a wipe
\* or a verify, by the message the code attaches to it
ErrorKindOf(what) ==
    IF what = "Failed to open device" THEN "DeviceOpen"
    ELSE IF what \in {"Failed to open /dev/urandom", "Failed to read random"}
    THEN "EntropySource"
    ELSE "Io"

\* C21: the error a wipe or a verify returns carries its kind as its variant:
\* a failed open of the device one kind, a failed read, write, seek or sync
\* another, a failed open or read of the random source a third, and a pass
\* count of 0 is answered with a configuration error.
C21_ErrorKindIdentifiesCause ==
    /\ (pc = "failed") => result.variant = ErrorKindOf(result.what)
    /\ (pc = "exit" /\ verify /\ result = OkResult /\ verified = "none") =>
          hresult.variant = ErrorKindOf(hresult.what)
    /\ (pc \in {"done", "failed"} /\ passes = 0 /\ pattern \in {"Random", "Zeros"}) =>
          result.variant = "Config"

\* nuke_drive is running, or has ended, for the second time on the device
SecondCallRunning ==
    /\ earlierCall # NoCall
    /\ pc \in {"sched", "open", "read", "write", "progress", "sync", "done", "failed"}

\* C22: when nuke_drive is called again after a call that has ended, with Ok
\* or with an error at any pass and offset, the new call begins as a first
\* call does: its step of entry leaves pass 0, nothing written, no pass
\* announced, whatever the call before left behind; the passes it announces
\* are those of its own pattern and pass count, numbered from 1, each pass
\* writes its first chunk at offset 0, and when it returns Ok it has run the
\* whole sequence.
C22_NextCallStartsAfresh ==
    [][ /\ (pc = "nuke" /\ earlierCall # NoCall) =>
              /\ pc' = "sched"
              /\ pass' = 0 /\ kind' = NoKind
              /\ size' = 0 /\ pos' = 0 /\ written' = 0
              /\ result' = NoResult
              /\ passLog' = << >> /\ chunkLog' = << >> /\ reports' = << >>
              /\ synced' = 0 /\ writeCalls' = 0 /\ opens' = 0 /\ sinkCalls' = 0
              /\ device' = device
        /\ SecondCallRunning' =>
              LET plan == nuke_drive(pattern', passes') IN
              /\ Len(passLog') <= Len(plan)
              /\ pass' = Len(passLog')
              /\ \A i \in 1..Len(passLog') :
                    /\ passLog'[i].index = i
                    /\ passLog'[i].kind = plan[i]
              /\ (chunkLog' # << >>) => chunkLog'[1].offset = 0
              /\ (pc' = "done") =>
                    /\ Len(passLog') = Len(plan)
                    /\ synced' = Len(plan)
                    /\ result' = OkResult
      ]_vars

\* a DoD wipe called after a call that failed has run its three passes
C22_Witness ==
    /\ earlierCall.variant = "Device"
    /\ pc = "done"
    /\ pattern = "Dod"
    /\ synced = 3
    /\ Len(device) > CHUNK_SIZE

\* nuke_drive runs, or has ended, for the second time with the pattern and the
\* pass count of the call before
SameCallAgain ==
    /\ SecondCallRunning
    /\ earlierCall.pattern = pattern
    /\ earlierCall.passes = passes

\* C23: two calls of nuke_drive with the same pattern and the same pass count
\* announce the same passes: as far as both calls came, their (index, total,
\* kind) tuples are equal one by one, and two calls that both returned Ok have
\* announced the same sequence; the bytes /dev/urandom delivered and the
\* content of the device (the second call finds what the first one wrote)
\* change nothing of it.
C23_SameInputsSameSchedule ==
    SameCallAgain =>
       /\ \A i \in 1..Min(Len(passLog), Len(earlierCall.log)) :
             passLog[i] = earlierCall.log[i]
       /\ (pc = "done" /\ earlierCall.variant = "Ok") => passLog = earlierCall.log
       /\ (pc = "done") => Len(earlierCall.log) <= Len(passLog)

\* a second DoD wipe has returned Ok after a first that returned Ok, over a
\* device the first has left with other content than it found
C23_Witness ==
    /\ SameCallAgain
    /\ pattern = "Dod"
    /\ pc = "done"
    /\ earlierCall.variant = "Ok"
    /\ Len(passLog) = 3
    /\ Len(device) > CHUNK_SIZE

\* the most passes a call runs: the pass count is a u8, Gutmann has 35
MostPasses == 255

\* C24: a call of nuke_drive in which every device and entropy operation
\* returns comes to its return, Ok or an error. Every write_all that succeeds
\* writes at least one byte and takes `written` up, never past the size; in
\* the loop `written` never goes down; the loop is left for sync_all exactly
\* when written has come to the size; the passes are counted up one by one to
\* the length of the plan, which is finite.
C24_WipeReturns ==
    /\ [][ /\ (pc = "write" /\ pc' = "progress") =>
                 /\ written < size
                 /\ written' > written
                 /\ written' <= size
           /\ (pc \in {"read", "write", "progress"}) => written' >= written
           /\ (pc' = "sync") => written' = size'
           /\ (pc' \in {"read", "write"}) => written' < size'
           /\ pass' \in {0, pass, pass + 1}
           /\ pass' <= Len(nuke_drive(pattern', passes'))
           /\ Len(nuke_drive(pattern', passes')) <= MostPasses
         ]_vars
    /\ (pc = "nuke") ~> (pc \in {"done", "failed"})

\* a Gutmann wipe of a device of more than one chunk has returned Ok
C24_Witness ==
    /\ pc = "done"
    /\ pattern = "Gutmann"
    /\ result = OkResult
    /\ pass = 35
    /\ Len(chunkLog) = 2
    /\ Len(device) = CHUNK_SIZE + 1

\* the pass that has returned Ok was a fixed-pattern pass
FixedPassReturnedOk ==
    /\ PassReturnedOk
    /\ kind.fn \in {"wipe_with_pattern", "wipe_with_repeating_pattern"}

\* C25: after a fixed-pattern pass with the byte sequence p of length L has
\* returned Ok, the byte at every offset o of the device is p[o mod L]: the
\* sequence repeats from offset 0 with no break of phase, across the chunk
\* boundaries too.
C25_PatternRepeatsFromOffsetZero ==
    FixedPassReturnedOk =>
       \A o \in 0..(Len(device) - 1) :
          device[o + 1] = kind.bytes[(o % Len(kind.bytes)) + 1]

\* a pass function is in its loop or at its sync_all
PastHead == pc \in {"read", "write", "progress", "sync"}

\* C26: within a pass the chunks are written one after the other: the first
\* at offset 0, every later one at the offset where the one before ended, so
\* the offsets go up without gap or overlap; the cursor of the file is always
\* at the number of bytes written, and between the head of the pass and the
\* return of its sync_all no step but a write_all moves it (no seek), and a
\* write_all moves it forward by what it wrote.
C26_ChunksSequentialNoSeek ==
    [][ /\ PastHead' =>
              /\ pos' = written'
              /\ \A i \in 1..Len(chunkLog') :
                    chunkLog'[i].offset =
                       (IF i = 1 THEN 0
                        ELSE chunkLog'[i - 1].offset + chunkLog'[i - 1].length)
        /\ (PastHead /\ pc # "write") => pos' = pos
        /\ (pc = "write") =>
              /\ pos' >= pos
              /\ pos' - pos <= CHUNK_SIZE
              /\ (pc' = "progress") =>
                    /\ chunkLog'[Len(chunkLog')].offset = pos
                    /\ pos' = pos + chunkLog'[Len(chunkLog')].length
      ]_vars

\* a pass has written three chunks, at 0, CHUNK_SIZE and 2 * CHUNK_SIZE
C26_Witness ==
    /\ pc = "sync"
    /\ Len(chunkLog) = 3
    /\ chunkLog[3].offset = 2 * CHUNK_SIZE
    /\ pos = size

\* handle_nuke has found the device, and it is a fixed one, with no --force
FixedDeviceNotForced == pc # "start" /\ ~removable /\ ~force

\* C27: handle_nuke writes to a device that is not removable only with
\* --force: for a fixed device without --force it has returned the error
\* "Cannot nuke non-removable device without --force flag" with no
\* confirmation asked, nuke_drive not called, the device not opened and no
\* byte of it written.
C27_FixedDeviceNeedsForce ==
    /\ FixedDeviceNotForced =>
          /\ pc = "exit"
          /\ hresult.variant = "Device"
          /\ hresult.what = "Cannot nuke non-removable device without --force flag"
          /\ confirmed = 0
          /\ result = NoResult
          /\ opens = 0
          /\ writeCalls = 0
          /\ device = OldData(Len(device))
    /\ (writeCalls > 0 \/ opens > 0 \/ confirmed > 0) => (removable \/ force)

\* handle_nuke has refused a fixed device
C27_Witness ==
    /\ FixedDeviceNotForced
    /\ pc = "exit"
    /\ hresult.variant = "Device"
    /\ Len(device) > 0

\* the device is shorter than the buffer verify_wiped reads
ShortOfScan == Len(device) < SCAN_LEN

\* C30: verify_wiped returns true or false only for a device that holds the
\* whole SCAN_LEN bytes it reads. On a shorter device, the empty one on which
\* a wipe returns Ok among them, it returns an error and no boolean, and
\* handle_nuke --verify ends with that error after the wipe has succeeded,
\* without the final "DEVICE NUKED".
C30_ShortDeviceVerifyFails ==
    /\ ShortOfScan => verified = "none"
    /\ (ShortOfScan /\ pc = "exit" /\ verify /\ result = OkResult) =>
          /\ hresult.variant = "Device"
          /\ hresult.what \in {"Failed to open device", "Failed to read"}
          /\ message # "DEVICE NUKED"
    /\ (verified # "none") => (Len(device) >= SCAN_LEN /\ verify /\ result = OkResult)

\* a wipe of the empty device has returned Ok and its verification has failed
\* at the end of the file
C30_Witness ==
    /\ Len(device) = 0
    /\ pc = "exit"
    /\ passes >= 1
    /\ synced = passes
    /\ result = OkResult
    /\ hresult = DeviceError("Failed to read", "UnexpectedEof")
    /\ verified = "none"

\* C28: whenever install has returned after it mounted a partition, with Ok
\* or with the error of any later step, it has run umount for every partition
\* it mounted.
C28_InstallUnmountsWhatItMounted ==
    (grub.pc = "returned") => (grub.byInstall \subseteq grub.tried)

\* the wipe of secure_format has returned Ok: every byte of the device written
\* in chunks from offset 0 and flushed, no error
WipeReturnedOk ==
    /\ pc = "exit"
    /\ result = NoResult
    /\ synced = 1
    /\ written = Len(device)
    /\ Contiguous(chunkLog)
    /\ SumLengths(chunkLog) = Len(device)

\* format_and_setup returned the error of one of its two checks
Rejected ==
    /\ fmt.pc = "returned"
    /\ fmt.ret.what \in {"Device is not removable", "Device too small",
                         "Device appears to contain system files"}

\* C29: in secure_format the checks of format_and_setup (is_valid_for_boot,
\* has_system_files) are evaluated only after wipe_with_progress has returned
\* Ok, so a device they reject is already overwritten when the error is
\* returned (and not partitioned); and when the overwrite fails its error is
\* returned and neither a check nor a partitioning step runs.
C29_WipeBeforeValidation ==
    /\ (fmt.checks # << >> \/ fmt.steps # << >>) => WipeReturnedOk
    /\ Rejected => (WipeReturnedOk /\ fmt.steps = << >>)
    /\ (result.variant = "Device") =>
          /\ fmt.checks = << >>
          /\ fmt.steps = << >>
          /\ (fmt.pc = "returned" => fmt.ret = result)

\* a device with system partitions, larger than one chunk, is rejected after
\* it was overwritten whole
C29_Witness ==
    /\ Rejected
    /\ fmt.ret.what = "Device appears to contain system files"
    /\ Len(device) > CHUNK_SIZE
    /\ SumLengths(chunkLog) = Len(device)
    /\ device # OldData(Len(device))

====
